---- MODULE Spec2Model ----
(***************************************************************************)
(* Model of the timelapse scripts of hbb4/time_lapse:                      *)
(*   automate_goldenhour.py, automate_rewind.py,                           *)
(*   automate_overlapping_timelapse.py, automate_timelapse.py.             *)
(*                                                                         *)
(* Times.  A datetime is a record [s, us]: whole seconds of wall-clock     *)
(* time counted from the local midnight of the script's cutoff date, and   *)
(* microseconds 0..999999 (datetime's own resolution).  Aware datetimes    *)
(* carry their UTC offset next to it where the code compares datetimes of  *)
(* different tzinfo objects.                                               *)
(*                                                                         *)
(* Paths.  A frame's path os.path.join(root, f) is the pair (dir, idx):    *)
(* dir is the rank of the directory's path in string order and idx the     *)
(* rank of the file name in the sorted listing, so that comparing pairs    *)
(* lexicographically is comparing the path strings.                        *)
(***************************************************************************)
EXTENDS Integers, Sequences, FiniteSets, TLC

(***************************************************************************)
(* Bounds of the model.                                                    *)
(***************************************************************************)
NumDirs == 2
MaxFiles == 4

Dirs == 1..NumDirs
\* File counts of a directory: none, one (the degenerate session), many.
FileCounts == {0, 1, MaxFiles}

Micro == 1000 * 1000

(***************************************************************************)
(* datetime and timedelta.                                                 *)
(***************************************************************************)
NoTime == [s |-> 0, us |-> -1]

Secs(n) == [s |-> n, us |-> 0]

TsLess(a, b) == a.s < b.s \/ (a.s = b.s /\ a.us < b.us)

TsLeq(a, b) == a = b \/ TsLess(a, b)

\* round(): to the nearest integer, ties to the even one.  num >= 0, den > 0.
RoundHalfEven(num, den) ==
    LET q == num \div den
        r == num % den
    IN  IF 2 * r < den THEN q
        ELSE IF 2 * r > den THEN q + 1
        ELSE IF q % 2 = 0 THEN q ELSE q + 1

\* t + timedelta(seconds = num / den): the float is split into its whole
\* seconds and a fraction, the fraction is rounded to microseconds.
AddSeconds(t, num, den) ==
    LET whole == num \div den
        us    == RoundHalfEven((num % den) * Micro, den)
        total == t.us + us
    IN  [s |-> t.s + whole + (total \div Micro), us |-> total % Micro]

(***************************************************************************)
(* UTC offsets, in seconds.  get_exif_timestamp of the golden-hour and     *)
(* rewind scripts attaches the zone with replace(tzinfo=SF_TZ): pytz then  *)
(* gives the zone's first entry, local mean time, UTC-7:53.  localize()    *)
(* and astimezone() give the offset in force: PDT or PST.                  *)
(***************************************************************************)
LMT_OFFSET == 0 - (7 * 3600 + 53 * 60)
PDT_OFFSET == 0 - 7 * 3600
PST_OFFSET == 0 - 8 * 3600
NAIVE == 0

Variants == {"goldenhour", "rewind", "overlapping"}

\* utcoffset() of the timestamps get_exif_timestamp returns.
ExifOffset(v) == IF v = "overlapping" THEN NAIVE ELSE LMT_OFFSET

\* datetime's comparison: on the wall-clock fields when the offsets are
\* equal, on the UTC instants (wall clock minus offset) otherwise.
AwareLess(a, aoff, b, boff) ==
    TsLess([s |-> a.s - aoff, us |-> a.us], [s |-> b.s - boff, us |-> b.us])

AwareLeq(a, aoff, b, boff) ==
    TsLeq([s |-> a.s - aoff, us |-> a.us], [s |-> b.s - boff, us |-> b.us])

\* The cutoff each script builds its timeline with; its wall-clock value is
\* the origin of the model's time axis.
NoCutoff == [given |-> FALSE, t |-> Secs(0), off |-> NAIVE]

ScriptCutoff(v) ==
    [given |-> TRUE, t |-> Secs(0),
     off |-> IF v = "goldenhour" THEN PDT_OFFSET
             ELSE IF v = "rewind" THEN PST_OFFSET ELSE NAIVE]

(***************************************************************************)
(* The metadata reader (exiftool) and get_exif_timestamp.                  *)
(* A reader result is [rc, out, t]: the exit code, the kind of its first   *)
(* output line ("empty", "garbage": not in the pattern, "stamp"), and the  *)
(* time the line states.                                                   *)
(***************************************************************************)
Unread == [rc |-> 0, out |-> "unread", t |-> 0]

ReaderFailures ==
    { [rc |-> 1, out |-> "empty", t |-> 0],
      [rc |-> 0, out |-> "empty", t |-> 0],
      [rc |-> 0, out |-> "garbage", t |-> 0] }

Stamp(t) == [rc |-> 0, out |-> "stamp", t |-> t]

\* What get_exif_timestamp returns: None, a datetime, or strptime's
\* ValueError going up the stack.
get_exif_timestamp(r) ==
    IF r.rc = 0 /\ r.out # "empty"
    THEN IF r.out = "stamp" THEN [kind |-> "ts", t |-> Secs(r.t)]
         ELSE [kind |-> "raise", t |-> NoTime]
    ELSE [kind |-> "None", t |-> NoTime]

(***************************************************************************)
(* Frames of one session.                                                  *)
(***************************************************************************)
Frame(ts, d, i) == [ts |-> ts, dir |-> d, idx |-> i]

\* golden hour, rewind: ts of the i-th file (0-based) of count files.
\*   interval = (tn - t0).total_seconds() / (count - 1) if count > 1 else 10
\*   ts = t0 + timedelta(seconds=i * interval)
\* (the interval taken over count instead of count - 1)
InterpolatedTimeOverCount(t0, tn, count, i) ==
    IF count > 1 THEN AddSeconds(t0, i * (tn.s - t0.s), count)
    ELSE AddSeconds(t0, i * 10, 1)

InterpolatedTime(t0, tn, count, i) ==
    IF count > 1 THEN AddSeconds(t0, i * (tn.s - t0.s), count - 1)
    ELSE AddSeconds(t0, i * 10, 1)

\* overlapping: ts = t0 + timedelta(seconds=i * 10)
FixedStepTime(t0, i) == AddSeconds(t0, i * 10, 1)

FrameTime(v, t0, tn, count, i) ==
    IF v = "overlapping" THEN FixedStepTime(t0, i)
    ELSE InterpolatedTime(t0, tn, count, i)

\* for i, f in enumerate(tls_files): self.frames.append((ts, path))
SessionFrames(v, d, count, t0, tn) ==
    [k \in 1..count |-> Frame(FrameTime(v, t0, tn, count, k - 1), d, k)]

(***************************************************************************)
(* The cutoff test.                                                        *)
(***************************************************************************)
\* golden hour, rewind: if start_cutoff and t0 < start_cutoff: continue
BeforeStartCutoff(t0, cutoff) ==
    cutoff.given /\ AwareLess(t0, LMT_OFFSET, cutoff.t, cutoff.off)

\* overlapping: if not t0 or t0 < CUTOFF_DATE: continue
BeforeCutoffDate(t0, cutoff) == TsLess(t0, cutoff.t)

BeforeCutoff(v, t0, cutoff) ==
    IF v = "overlapping" THEN BeforeCutoffDate(t0, cutoff)
    ELSE BeforeStartCutoff(t0, cutoff)

(***************************************************************************)
(* One pass of the loop over os.walk: what the directory d adds.           *)
(* thumb: "thumbnail" in root.  n: the number of TLS_*.jpg files.          *)
(* first, last: what the reader answers for tls_files[0], tls_files[-1].   *)
(* reads: the files the reader was run on, in order.                       *)
(***************************************************************************)
\* (a last frame without timestamp keeps the session's first frame)
IndexSessionKeepingFirst(v, cutoff, d, thumb, n, first, last) ==
    LET t0 == get_exif_timestamp(first)
        tn == get_exif_timestamp(last)
    IN  IF thumb \/ n = 0
        THEN [raised |-> FALSE, reads |-> <<>>, add |-> <<>>]
        ELSE IF t0.kind = "raise"
        THEN [raised |-> TRUE, reads |-> <<1>>, add |-> <<>>]
        ELSE IF t0.kind = "None" \/ BeforeCutoff(v, t0.t, cutoff)
        THEN [raised |-> FALSE, reads |-> <<1>>, add |-> <<>>]
        ELSE IF tn.kind = "raise"
        THEN [raised |-> TRUE, reads |-> <<1, n>>, add |-> <<>>]
        ELSE IF tn.kind = "None"
        THEN [raised |-> FALSE, reads |-> <<1, n>>,
              add |-> <<Frame(t0.t, d, 1)>>]
        ELSE [raised |-> FALSE, reads |-> <<1, n>>,
              add |-> SessionFrames(v, d, n, t0.t, tn.t)]

IndexSession(v, cutoff, d, thumb, n, first, last) ==
    LET t0 == get_exif_timestamp(first)
        tn == get_exif_timestamp(last)
    IN  IF thumb \/ n = 0
        THEN [raised |-> FALSE, reads |-> <<>>, add |-> <<>>]
        ELSE IF t0.kind = "raise"
        THEN [raised |-> TRUE, reads |-> <<1>>, add |-> <<>>]
        ELSE IF t0.kind = "None" \/ BeforeCutoff(v, t0.t, cutoff)
        THEN [raised |-> FALSE, reads |-> <<1>>, add |-> <<>>]
        ELSE IF tn.kind = "raise"
        THEN [raised |-> TRUE, reads |-> <<1, n>>, add |-> <<>>]
        ELSE IF tn.kind = "None"
        THEN [raised |-> FALSE, reads |-> <<1, n>>, add |-> <<>>]
        ELSE [raised |-> FALSE, reads |-> <<1, n>>,
              add |-> SessionFrames(v, d, n, t0.t, tn.t)]

(***************************************************************************)
(* self.frames.sort(...)                                                   *)
(***************************************************************************)
PathLess(a, b) == a.dir < b.dir \/ (a.dir = b.dir /\ a.idx < b.idx)

\* golden hour, rewind: sort(key=lambda x: x[0]), on the timestamp alone.
KeyLess(a, b) == TsLess(a.ts, b.ts)

\* overlapping: sort(), on the tuples (timestamp, path).
TupleLess(a, b) == TsLess(a.ts, b.ts) \/ (a.ts = b.ts /\ PathLess(a, b))

FrameLess(v, a, b) == IF v = "overlapping" THEN TupleLess(a, b) ELSE KeyLess(a, b)

\* list.sort is stable.  The place of s[i] in the sorted list: behind the
\* elements that are less, and behind the earlier ones that are not greater.
StableRank(v, s, i) ==
    1 + Cardinality({j \in DOMAIN s :
                        \/ FrameLess(v, s[j], s[i])
                        \/ (j < i /\ ~FrameLess(v, s[i], s[j]))})

\* (no sort: the frames stay in the order of the walk)
SortFramesSkipped(v, s) == s

\* The elements of s, each at the position rank gives it.
Ranked(s, rank) == [k \in 1..Len(s) |-> s[CHOOSE i \in DOMAIN s : rank[i] = k]]

SortFrames(v, s) == Ranked(s, [i \in DOMAIN s |-> StableRank(v, s, i)])

(***************************************************************************)
(* State.                                                                  *)
(*   variant       the script that runs                                    *)
(*   start_cutoff  GlobalTimeline's cutoff (CUTOFF_DATE in overlapping)    *)
(*   phase         where the run is                                        *)
(*   visited       the directories os.walk has yielded so far              *)
(*   frames        self.frames                                             *)
(*   appended      history: the frames in the order they were appended     *)
(*   sess          history: per directory, what the walk found there       *)
(*   query, result the last call of get_range / get_time_window and what   *)
(*                 it returned                                             *)
(*   frame_list, full_list   create_video_with_rewind's lists              *)
(*   date, sun     get_sun_time's argument and the times of both events    *)
(*   window        the golden-hour window of __main__                      *)
(***************************************************************************)
VARIABLES variant, start_cutoff, phase, visited, frames, appended, sess,
          query, result, frame_list, full_list, date, sun, window

vars == <<variant, start_cutoff, phase, visited, frames, appended, sess,
          query, result, frame_list, full_list, date, sun, window>>

timelineVars == <<variant, start_cutoff, visited, frames, appended, sess>>
queryVars == <<query, result>>
rewindVars == <<frame_list, full_list>>
sunVars == <<date, sun, window>>

NotVisited == [n |-> 0, thumb |-> FALSE, first |-> Unread, last |-> Unread,
               reads |-> <<>>]

NoQuery == [op |-> "none"]

NoDate == [year |-> 0, yday |-> 0]

NoSun == [sunrise |-> NoTime, sunset |-> NoTime, dusk |-> NoTime]

NoWindow == [start |-> NoTime, end |-> NoTime]

QueryIdle == query = NoQuery /\ result = <<>>
RewindIdle == frame_list = <<>> /\ full_list = <<>>
SunIdle == date = NoDate /\ sun = NoSun /\ window = NoWindow

(***************************************************************************)
(* GlobalTimeline.__init__                                                 *)
(***************************************************************************)
\* Seconds, from the cutoff's wall-clock time, a first frame may state.
FirstStamps == {0 - 7200, 0 - 1800, 0, 600}
\* Seconds from a session's first frame to its last.
Durations == {10, 2000}

InitBuild ==
    /\ variant \in Variants
    /\ start_cutoff = ScriptCutoff(variant)
    /\ phase = "walking"
    /\ visited = {}
    /\ frames = <<>>
    /\ appended = <<>>
    /\ sess = [d \in Dirs |-> NotVisited]
    /\ QueryIdle /\ RewindIdle /\ SunIdle

\* One directory of the walk, with what the file system and the reader
\* answer for it.  A session of one file reads that file twice.
VisitDir(d) ==
    /\ phase = "walking"
    /\ d \notin visited
    /\ \E thumb \in BOOLEAN, n \in FileCounts,
          first \in ReaderFailures \cup {Stamp(t) : t \in FirstStamps},
          dur \in Durations, lastFails \in ReaderFailures \cup {Unread} :
         LET last == IF n = 1 THEN first
                     ELSE IF lastFails # Unread \/ first.out # "stamp"
                     THEN lastFails
                     ELSE Stamp(first.t + dur)
             out  == IndexSession(variant, start_cutoff, d, thumb, n, first, last)
         IN  /\ (thumb => n = MaxFiles)
             /\ last # Unread
             /\ visited' = visited \cup {d}
             /\ frames' = frames \o out.add
             /\ appended' = appended \o out.add
             /\ sess' = [sess EXCEPT ![d] =
                           [n |-> n, thumb |-> thumb,
                            first |-> IF Len(out.reads) >= 1 THEN first ELSE Unread,
                            last |-> IF Len(out.reads) >= 2 THEN last ELSE Unread,
                            reads |-> out.reads]]
             /\ phase' = IF out.raised THEN "aborted" ELSE "walking"
    /\ UNCHANGED <<variant, start_cutoff>>
    /\ UNCHANGED <<queryVars, rewindVars, sunVars>>

\* After the loop: self.frames.sort(...)
FinishBuild ==
    /\ phase = "walking"
    /\ visited = Dirs
    /\ frames' = SortFrames(variant, frames)
    /\ phase' = "built"
    /\ UNCHANGED <<variant, start_cutoff, visited, appended, sess>>
    /\ UNCHANGED <<queryVars, rewindVars, sunVars>>

Next == (\E d \in Dirs : VisitDir(d)) \/ FinishBuild

Spec == InitBuild /\ [][Next]_vars

(***************************************************************************)
(* One session at a time: the build of an archive whose other directories  *)
(* hold no frames, for sessions of every length up to MaxSessionFiles and  *)
(* for the session of 101 frames.                                          *)
(***************************************************************************)
MaxSessionFiles == 6

SessionCounts == (1..MaxSessionFiles) \cup {101}
\* 00:10:00 and 12:00:00
SessionStarts == {600, 12 * 3600}
\* up to 00:16:40
SessionDurations == {0, 1, 10, 25, 1000}

InitSession ==
    /\ variant \in Variants
    /\ start_cutoff = ScriptCutoff(variant)
    /\ phase = "walking"
    /\ visited = Dirs \ {1}
    /\ frames = <<>>
    /\ appended = <<>>
    /\ sess = [d \in Dirs |-> NotVisited]
    /\ QueryIdle /\ RewindIdle /\ SunIdle

VisitSession ==
    /\ phase = "walking"
    /\ 1 \notin visited
    /\ \E n \in SessionCounts, t0 \in SessionStarts, dur \in SessionDurations :
         LET first == Stamp(t0)
             last  == IF n = 1 THEN first ELSE Stamp(t0 + dur)
             out   == IndexSession(variant, start_cutoff, 1, FALSE, n, first, last)
         IN  /\ visited' = visited \cup {1}
             /\ frames' = frames \o out.add
             /\ appended' = appended \o out.add
             /\ sess' = [sess EXCEPT ![1] =
                           [n |-> n, thumb |-> FALSE, first |-> first,
                            last |-> last, reads |-> out.reads]]
             /\ phase' = IF out.raised THEN "aborted" ELSE "walking"
    /\ UNCHANGED <<variant, start_cutoff>>
    /\ UNCHANGED <<queryVars, rewindVars, sunVars>>

NextSession == VisitSession \/ FinishBuild

SpecSession == InitSession /\ [][NextSession]_vars

(***************************************************************************)
(* Properties of the build.                                                *)
(***************************************************************************)
\* The positions of self.frames that hold a frame of directory d.
FramesOf(d) == {j \in DOMAIN frames : frames[j].dir = d}

Occurrences(s, x) == Cardinality({j \in DOMAIN s : s[j] = x})

NonDecreasing(s) ==
    \A j \in 1..(Len(s) - 1) : ~TsLess(s[j + 1].ts, s[j].ts)

GaveTime(r) == r # Unread /\ get_exif_timestamp(r).kind = "ts"

GaveNoTime(r) == r # Unread /\ get_exif_timestamp(r).kind # "ts"

\* C3: once the constructor has finished, self.frames is non-decreasing in
\* timestamp and is a permutation of the frames appended during the walk,
\* whatever the order in which the directories were visited.
C3_SortedPermutation ==
    phase = "built" =>
        /\ NonDecreasing(frames)
        /\ Len(frames) = Len(appended)
        /\ \A j \in DOMAIN appended :
             Occurrences(frames, appended[j]) = Occurrences(appended, appended[j])

\* A finished build whose frames were appended out of time order and with
\* two frames of one timestamp.
C3_Witness ==
    /\ phase = "built"
    /\ ~NonDecreasing(appended)
    /\ \E j \in 1..(Len(frames) - 1) : frames[j].ts = frames[j + 1].ts

\* The exact value t0 + num/den seconds, as a datetime: it must be a whole
\* number of microseconds.
ExactlyAt(ts, t0, num, den) ==
    /\ ts.s = t0 + (num \div den)
    /\ ts.us * den = (num % den) * Micro

\* ts differs from t0 + num/den seconds by less than a microsecond.
WithinMicrosecond(ts, t0, num, den) ==
    LET dus  == (ts.s - t0 - (num \div den)) * Micro + ts.us
        diff == dus * den - (num % den) * Micro
    IN  /\ ts.s - t0 - (num \div den) \in {0, 1}
        /\ diff < den /\ 0 - diff < den

\* The session of 101 frames from 12:00:00 to 12:16:40.
IsExampleSession(s) ==
    s.n = 101 /\ s.first = Stamp(12 * 3600) /\ s.last = Stamp(12 * 3600 + 16 * 60 + 40)

C7_SessionAtomic ==
    \A d \in Dirs :
        LET s == sess[d]
            t0 == get_exif_timestamp(s.first)
        IN  /\ d \notin visited => FramesOf(d) = {}
            /\ (GaveNoTime(s.first) \/ GaveNoTime(s.last)) => FramesOf(d) = {}
            /\ (GaveTime(s.first) /\ ~BeforeCutoff(variant, t0.t, start_cutoff))
                 => s.reads = <<1, s.n>>
            /\ (GaveTime(s.first) /\ GaveTime(s.last))
                 => \A k \in 1..s.n :
                      Cardinality({j \in FramesOf(d) : frames[j].idx = k}) = 1
            /\ Cardinality(FramesOf(d)) \in {0, s.n}

\* A finished build with a session dropped for its last frame next to a
\* session indexed whole.
C7_Witness ==
    /\ phase = "built"
    /\ \E d, e \in Dirs :
         /\ GaveTime(sess[d].first) /\ GaveNoTime(sess[d].last)
         /\ sess[d].n > 1 /\ FramesOf(d) = {}
         /\ GaveTime(sess[e].last) /\ Cardinality(FramesOf(e)) = sess[e].n
         /\ sess[e].n > 1

\* C8: a session whose first timestamp is earlier than the cutoff adds no
\* frame and its last frame is never read; a session whose first timestamp
\* is the cutoff is not skipped for it (its last frame is read).
C8_CutoffSkipsBeforeLastRead ==
    \A d \in visited :
        LET s == sess[d]
        IN  (start_cutoff.given /\ GaveTime(s.first)) =>
              /\ s.first.t < start_cutoff.t.s
                   => (FramesOf(d) = {} /\ s.reads = <<1>>)
              /\ s.first.t = start_cutoff.t.s => s.reads = <<1, s.n>>

\* C10: a reader failure on a file (non-zero exit, empty output, output not
\* in the pattern) skips the session and the run goes on.
C10_ReaderFailureAbsorbed ==
    \A d \in visited :
        (sess[d].first \in ReaderFailures \/ sess[d].last \in ReaderFailures)
            => (FramesOf(d) = {} /\ phase # "aborted")

(***************************************************************************)
(* The queries of a built timeline.                                        *)
(***************************************************************************)
FramesPerSecond == 30

MaxDuration == 1
MaxRangeFiles == 16

Min(a, b) == IF a < b THEN a ELSE b
Max(a, b) == IF a > b THEN a ELSE b

\* int(x) of x = num/den: towards zero.  The model multiplies the frame
\* count by the ratio exactly, where the code multiplies floats.
IntTrunc(num, den) ==
    IF num >= 0 THEN num \div den ELSE 0 - ((0 - num) \div den)

\* (goes right on equal timestamps: the first frame after the target)
RECURSIVE bisect_right_ts(_, _, _, _)
bisect_right_ts(a, x, lo, hi) ==
    IF lo < hi
    THEN LET mid == (lo + hi) \div 2
         IN  IF ~TsLess(x.ts, a[mid + 1].ts)
             THEN bisect_right_ts(a, x, mid + 1, hi)
             ELSE bisect_right_ts(a, x, lo, mid)
    ELSE lo

\* bisect.bisect_left(a, x): indices are Python's, a[mid] is a[mid + 1] here.
RECURSIVE bisect_left(_, _, _, _)
bisect_left(a, x, lo, hi) ==
    IF lo < hi
    THEN LET mid == (lo + hi) \div 2
         IN  IF TupleLess(a[mid + 1], x)
             THEN bisect_left(a, x, mid + 1, hi)
             ELSE bisect_left(a, x, lo, mid)
    ELSE lo

\* a[lo:hi] for 0 <= lo, 0 <= hi
Slice(a, lo, hi) ==
    LET e == Min(hi, Len(a))
    IN  IF lo < e THEN SubSeq(a, lo + 1, e) ELSE <<>>

\* (the end is cut to the length and the start stays)
RangeIndicesCutShort(len, idx, num_frames, frames_before) ==
    LET start_idx == Max(0, idx - frames_before)
        end_idx   == start_idx + num_frames
    IN  IF end_idx > len
        THEN [start |-> start_idx, end |-> len]
        ELSE [start |-> start_idx, end |-> end_idx]

\* start_idx and end_idx of get_range
RangeIndices(len, idx, num_frames, frames_before) ==
    LET start_idx == Max(0, idx - frames_before)
        end_idx   == start_idx + num_frames
    IN  IF end_idx > len
        THEN [start |-> Max(0, len - num_frames), end |-> len]
        ELSE [start |-> start_idx, end |-> end_idx]

\* The centre ratios: the scripts' 0.45, 0.5 and 0.7, the ends 0 and 1, and
\* one below and one above them.
Ratios == { [num |-> 0 - 1, den |-> 2], [num |-> 0, den |-> 1],
            [num |-> 9, den |-> 20], [num |-> 1, den |-> 2],
            [num |-> 7, den |-> 10], [num |-> 1, den |-> 1],
            [num |-> 3, den |-> 2] }

\* Anchor times, in seconds: before, inside and after the sessions.
TargetTimes == {0, 600, 670, 680, 710, 755, 900}

\* The first frames of the sessions of a built timeline.
\* and their lengths: the first directory's, the other directories'.
RangeStarts == {600, 605}
RangeCounts == {0, MaxRangeFiles - 2, MaxRangeFiles - 1, MaxRangeFiles}
OtherCounts == {0, MaxRangeFiles}

\* A timeline as the constructor leaves it: the sessions lens, starts
\* walked in the order of the directories and sorted.
WalkedFrames(v, lens, starts) ==
    LET RECURSIVE Upto(_)
        Upto(d) ==
            IF d = 0 THEN <<>>
            ELSE Upto(d - 1) \o
                 IndexSession(v, ScriptCutoff(v), d, FALSE, lens[d],
                              Stamp(starts[d]),
                              Stamp(starts[d] + 10 * (lens[d] - 1))).add
    IN  Upto(NumDirs)

InitQuery ==
    /\ variant \in Variants
    /\ start_cutoff = ScriptCutoff(variant)
    /\ phase = "built"
    /\ visited = Dirs
    /\ \E lens \in [Dirs -> RangeCounts], starts \in [Dirs -> RangeStarts] :
         /\ starts[1] = 600
         /\ \A d \in Dirs \ {1} : lens[d] \in OtherCounts
         /\ \A d \in Dirs \ {1, 2} : starts[d] = 605
         /\ appended = WalkedFrames(variant, lens, starts)
         /\ frames = SortFrames(variant, appended)
         /\ sess = [d \in Dirs |->
                      IF lens[d] = 0 THEN [NotVisited EXCEPT !.n = 0]
                      ELSE [n |-> lens[d], thumb |-> FALSE,
                            first |-> Stamp(starts[d]),
                            last |-> Stamp(starts[d] + 10 * (lens[d] - 1)),
                            reads |-> <<1, lens[d]>>]]
    /\ QueryIdle /\ RewindIdle /\ SunIdle

\* overlapping: GlobalTimeline.get_range(target_time, duration_sec, center_ratio)
\* on the list the method has just sorted: the call's locals and its result.
get_range(sorted, target, duration_sec, center_ratio) ==
    LET num_frames    == duration_sec * FramesPerSecond
        frames_before == IntTrunc(num_frames * center_ratio.num, center_ratio.den)
        idx == bisect_left(sorted, Frame(target, 0, 0), 0, Len(sorted))
        r   == RangeIndices(Len(sorted), idx, num_frames, frames_before)
    IN  [num_frames |-> num_frames, frames_before |-> frames_before,
         idx |-> idx, returned |-> Slice(sorted, r.start, r.end)]

\* A get_range that keeps only the returned slice as its list
\*   self.frames = self.frames[start_idx:end_idx]
GetRangeOnConsuming(sorted) ==
    \E target \in TargetTimes, duration_sec \in 0..MaxDuration,
       center_ratio \in Ratios :
         LET call == get_range(sorted, Secs(target), duration_sec, center_ratio)
         IN  /\ frames' = call.returned
             /\ query' = [op |-> "get_range", target |-> Secs(target),
                          num_frames |-> call.num_frames,
                          frames_before |-> call.frames_before,
                          idx |-> call.idx]
             /\ result' = call.returned

GetRangeOn(sorted) ==
    \E target \in TargetTimes, duration_sec \in 0..MaxDuration,
       center_ratio \in Ratios :
         LET call == get_range(sorted, Secs(target), duration_sec, center_ratio)
         IN  /\ frames' = sorted
             /\ query' = [op |-> "get_range", target |-> Secs(target),
                          num_frames |-> call.num_frames,
                          frames_before |-> call.frames_before,
                          idx |-> call.idx]
             /\ result' = call.returned

\* self.frames.sort(), then the search and the slice.
GetRange ==
    /\ phase = "built"
    /\ variant = "overlapping"
    /\ query = NoQuery
    /\ GetRangeOn(SortFrames(variant, frames))
    /\ UNCHANGED <<variant, start_cutoff, phase, visited, appended, sess>>
    /\ UNCHANGED <<rewindVars, sunVars>>

\* Window bounds of a query, in seconds, and the offsets they may carry.
WindowTimes == {590, 615, 760}

\* golden hour, rewind: GlobalTimeline.get_time_window(start_time, end_time)
\*   [f for f in self.frames if start_time <= f[0] <= end_time]
TimeWindow(fs, start_time, end_time, off) ==
    LET InWindow(f) == /\ AwareLeq(start_time, off, f.ts, LMT_OFFSET)
                       /\ AwareLeq(f.ts, LMT_OFFSET, end_time, off)
    IN  SelectSeq(fs, InWindow)

GetTimeWindow ==
    /\ phase = "built"
    /\ variant \in {"goldenhour", "rewind"}
    /\ query = NoQuery
    /\ \E start_time \in WindowTimes, end_time \in WindowTimes,
          off \in {PDT_OFFSET, PST_OFFSET} :
         /\ query' = [op |-> "get_time_window", start |-> Secs(start_time),
                      end |-> Secs(end_time), off |-> off]
         /\ result' = TimeWindow(frames, Secs(start_time), Secs(end_time), off)
    /\ UNCHANGED <<variant, start_cutoff, phase, visited, frames, appended, sess>>
    /\ UNCHANGED <<rewindVars, sunVars>>

\* The caller is done with the returned list (the video is made) and goes
\* on to its next date or event.
NextEvent ==
    /\ phase = "built"
    /\ query # NoQuery
    /\ query' = NoQuery
    /\ result' = <<>>
    /\ UNCHANGED <<variant, start_cutoff, phase, visited, frames, appended, sess>>
    /\ UNCHANGED <<rewindVars, sunVars>>

NextQuery == GetRange \/ GetTimeWindow \/ NextEvent

SpecQuery == InitQuery /\ [][NextQuery]_vars

(***************************************************************************)
(* Properties of get_range.                                                *)
(***************************************************************************)
\* The frames of the index strictly before a time: as many as the 0-based
\* position of the first frame at or after it (the index is sorted).
EarlierThan(t) == Cardinality({j \in DOMAIN frames : TsLess(frames[j].ts, t)})

\* result is the frames of the index at the 0-based positions a .. a+len-1
IsSliceAt(a) ==
    /\ a + Len(result) <= Len(frames)
    /\ \A k \in 1..Len(result) : result[k] = frames[a + k]

\* start_idx before the end is looked at
RawStart == Max(0, EarlierThan(query.target) - query.frames_before)

LowClampFires == EarlierThan(query.target) - query.frames_before < 0
HighClampFires == RawStart + query.num_frames > Len(frames)

\* C1: get_range returns a contiguous slice of the index of exactly
\* min(n, L) frames, for every length L, anchor, frame count n >= 0 and
\* ratio; when start + n runs past the end the slice is the last min(n, L)
\* frames of the index (shifted left, not short).
C1_ExactCountContiguous ==
    query.op = "get_range" =>
        /\ Len(result) = Min(query.num_frames, Len(frames))
        /\ \E a \in 0..Len(frames) : IsSliceAt(a)
        /\ HighClampFires => IsSliceAt(Len(frames) - Len(result))

\* A call whose window ran past the end of an index longer than the window.
C1_Witness ==
    /\ query.op = "get_range"
    /\ query.num_frames >= 1
    /\ Len(frames) > query.num_frames
    /\ HighClampFires
    /\ Len(result) = query.num_frames
    /\ result[Len(result)] = frames[Len(frames)]

\* The anchor index is the position of the first frame at or after the
\* anchor time: all frames before it are earlier, the frame at it is not.
AnchorIsFirstAtOrAfter ==
    /\ query.idx \in 0..Len(frames)
    /\ \A j \in 1..query.idx : TsLess(frames[j].ts, query.target)
    /\ query.idx < Len(frames) => ~TsLess(frames[query.idx + 1].ts, query.target)

\* The frame at the anchor index is at position frames_before of the result.
AnchorAtFramesBefore ==
    /\ query.frames_before \in 0..(Len(result) - 1)
    /\ query.idx < Len(frames)
    /\ result[query.frames_before + 1] = frames[query.idx + 1]

\* C2 as stated: the anchor index is the first frame at or after the anchor
\* time, and whenever neither clamp fires the anchor frame is at position
\* floor(n * ratio) of the result.
C2_AnchorWheneverUnclamped ==
    query.op = "get_range" =>
        /\ AnchorIsFirstAtOrAfter
        /\ (~LowClampFires /\ ~HighClampFires) => AnchorAtFramesBefore

\* C2: the anchor index is the first frame at or after the anchor time (also
\* among frames of one timestamp), and whenever n >= 1, floor(n * ratio) is
\* one of the positions 0 .. n-1 and neither clamp fires, the anchor frame
\* is at position floor(n * ratio) of the result.
C2_AnchorInsideWindow ==
    query.op = "get_range" =>
        /\ AnchorIsFirstAtOrAfter
        /\ ( /\ query.num_frames >= 1
             /\ query.frames_before \in 0..(query.num_frames - 1)
             /\ ~LowClampFires /\ ~HighClampFires ) => AnchorAtFramesBefore

\* An unclamped call whose anchor time is the timestamp of two frames, with
\* frames before the anchor in the result.
C2_Witness ==
    /\ query.op = "get_range"
    /\ query.num_frames >= 1
    /\ query.frames_before \in 1..(query.num_frames - 1)
    /\ ~LowClampFires /\ ~HighClampFires
    /\ query.idx + 2 <= Len(frames)
    /\ frames[query.idx + 1].ts = query.target
    /\ frames[query.idx + 2].ts = query.target
    /\ result[query.frames_before + 1] = frames[query.idx + 1]

(***************************************************************************)
(* __main__ of the golden-hour and rewind scripts: the window around the   *)
(* sunset, the frames in it, and the rewind of the video.                  *)
(* Days are counted from the cutoff's date: day(y) is the wall-clock       *)
(* second of the local midnight of the y-th day of 2025.                   *)
(***************************************************************************)
DaySecs == 24 * 3600

\* Days of the year 2025: the cutoffs, the dates the scripts process.
GoldenCutoffDay == 266
RewindCutoffDay == 347
TEST_DAY == [year |-> 2025, yday |-> 349]
test_dates == << [year |-> 2025, yday |-> 253], [year |-> 2025, yday |-> 293],
                 [year |-> 2025, yday |-> 314], [year |-> 2025, yday |-> 349] >>

CutoffDay(v) == IF v = "rewind" THEN RewindCutoffDay ELSE GoldenCutoffDay

\* The wall-clock second of h:m:s of the date d.
OnDate(v, d, h, m, sec) ==
    (d.yday - CutoffDay(v)) * DaySecs + h * 3600 + m * 60 + sec

\* The offset pytz gives an evening of the date: daylight time from
\* 9 March to 1 November 2025.
FirstPDTDay == 68
LastPDTDay == 305
ZoneOffset(d) ==
    IF d.yday >= FirstPDTDay /\ d.yday <= LastPDTDay THEN PDT_OFFSET
    ELSE PST_OFFSET

\* t + timedelta(minutes=m), m of either sign
AddMinutes(t, m) == [s |-> t.s + 60 * m, us |-> t.us]

\* min(a, b) of two datetimes of the offset off: b when b < a, else a
min_datetime(a, b, off) == IF AwareLess(b, off, a, off) THEN b ELSE a

\* (the raw start, never capped)
final_start_raw(v, d, sunset) == AddMinutes(sunset, 0 - 150)

\* s_win = sunset - timedelta(minutes=150); final_start = min(s_win, target_5pm)
final_start(v, d, sunset) ==
    LET s_win      == AddMinutes(sunset, 0 - 150)
        target_5pm == Secs(OnDate(v, d, 17, 0, 0))
    IN  min_datetime(s_win, target_5pm, ZoneOffset(d))

\* golden hour: e_win = sunset + timedelta(minutes=120);
\*              final_end = min(e_win, target_9pm)
\* rewind:      final_end = nautical_dusk
final_end(v, d, sunset, dusk) ==
    LET e_win      == AddMinutes(sunset, 120)
        target_9pm == Secs(OnDate(v, d, 21, 0, 0))
    IN  IF v = "rewind" THEN dusk
        ELSE min_datetime(e_win, target_9pm, ZoneOffset(d))

M == 45

\* (the step rounded up)
step_ceil(N) == Max(1, (N + M - 1) \div M)

\* step = max(1, N // M)
step(N) == Max(1, N \div M)

\* a[::-st]: the elements at the 0-based positions N-1, N-1-st, ... while
\* the position is not negative.
ReverseEvery(a, st) ==
    LET RECURSIVE From(_)
        From(i) == IF i < 0 THEN <<>> ELSE <<a[i + 1]>> \o From(i - st)
    IN  From(Len(a) - 1)

\* create_video_with_rewind(frame_list, output_path): the list it renders.
create_video_with_rewind(fl) ==
    LET N             == Len(fl)
        rewind_frames == ReverseEvery(fl, step(N))
    IN  fl \o rewind_frames

\* A timeline as the constructor leaves it, from the sessions the walk
\* finds: dir d has lens[d] files, the first states the second firsts[d],
\* the last the second lasts[d].
BuiltFrames(v, lens, firsts, lasts) ==
    LET RECURSIVE Upto(_)
        Upto(d) ==
            IF d = 0 THEN <<>>
            ELSE Upto(d - 1) \o
                 IndexSession(v, ScriptCutoff(v), d, FALSE, lens[d],
                              Stamp(firsts[d]), Stamp(lasts[d])).add
    IN  Upto(NumDirs)

BuiltLog(v, lens, firsts, lasts) ==
    [d \in Dirs |->
        IF lens[d] = 0 THEN NotVisited
        ELSE [n |-> lens[d], thumb |-> FALSE, first |-> Stamp(firsts[d]),
              last |-> Stamp(lasts[d]),
              reads |-> IndexSession(v, ScriptCutoff(v), d, FALSE, lens[d],
                                     Stamp(firsts[d]), Stamp(lasts[d])).reads]]

MaxRewindFiles == 140
GoldenCounts == {0, 1, 12}

\* rewind: one session of the test day from 17:06, a frame every 10 s.
\* golden hour: a session of 20 October from 15:30 to 21:00, one of
\* 15 December from 14:00 to 20:00.
MainSessions(v) ==
    IF v = "rewind"
    THEN { [lens   |-> [d \in Dirs |-> IF d = 1 THEN n ELSE 0],
            firsts |-> [d \in Dirs |-> OnDate(v, TEST_DAY, 17, 6, 0)],
            lasts  |-> [d \in Dirs |->
                          OnDate(v, TEST_DAY, 17, 6, 0) + 10 * (n - 1)]] :
           n \in {0, 1, MaxRewindFiles} }
    ELSE { [lens   |-> [d \in Dirs |-> IF d = 1 THEN n1
                                       ELSE IF d = 2 THEN n2 ELSE 0],
            firsts |-> [d \in Dirs |->
                          IF d = 1 THEN OnDate(v, test_dates[2], 15, 30, 0)
                          ELSE OnDate(v, test_dates[4], 14, 0, 0)],
            lasts  |-> [d \in Dirs |->
                          IF d = 1
                          THEN IF n1 = 1 THEN OnDate(v, test_dates[2], 15, 30, 0)
                               ELSE OnDate(v, test_dates[2], 21, 0, 0)
                          ELSE IF n2 = 1 THEN OnDate(v, test_dates[4], 14, 0, 0)
                               ELSE OnDate(v, test_dates[4], 20, 0, 0)]] :
           n1 \in GoldenCounts, n2 \in GoldenCounts }

InitMain ==
    /\ variant \in {"goldenhour", "rewind"}
    /\ start_cutoff = ScriptCutoff(variant)
    /\ phase = "built"
    /\ visited = Dirs
    /\ \E w \in MainSessions(variant) :
         /\ appended = BuiltFrames(variant, w.lens, w.firsts, w.lasts)
         /\ frames = SortFrames(variant, appended)
         /\ sess = BuiltLog(variant, w.lens, w.firsts, w.lasts)
    /\ QueryIdle /\ RewindIdle /\ SunIdle

\* Times of day a sunset is drawn from, as [s, us] after midnight: the
\* year's earliest and latest in San Francisco, and the times around 19:00
\* and 19:30, where the caps of the window begin to hold.
SunsetClocks ==
    { [s |-> 16 * 3600 + 51 * 60 + 30, us |-> 250000],
      [s |-> 18 * 3600 + 59 * 60 + 59, us |-> 999999],
      [s |-> 19 * 3600, us |-> 0],
      [s |-> 19 * 3600, us |-> 1],
      [s |-> 19 * 3600 + 20 * 60, us |-> 0],
      [s |-> 19 * 3600 + 29 * 60 + 59, us |-> 999999],
      [s |-> 19 * 3600 + 30 * 60, us |-> 0],
      [s |-> 19 * 3600 + 30 * 60, us |-> 1],
      [s |-> 20 * 3600 + 35 * 60 + 10, us |-> 0] }

\* Times of day of the nautical dusk: every 10 s from 17:00, so that the
\* window ends at each frame of the session in turn.
DuskClocks == { [s |-> 17 * 3600 + 10 * k, us |-> 0] : k \in 0..MaxRewindFiles }

ClockOn(v, d, c) == [s |-> OnDate(v, d, 0, 0, 0) + c.s, us |-> c.us]

\* What get_sunset_time, get_sun_time answer for the date: a time of its
\* evening, or None (NoTime).
SunTimes(v, d, clocks) == {NoTime} \cup {ClockOn(v, d, c) : c \in clocks}

\* frames = timeline.get_time_window(final_start, final_end)
WindowCall(v, d, sunset, dusk) ==
    LET fs == final_start(v, d, sunset)
        fe == final_end(v, d, sunset, dusk)
    IN  [window |-> [start |-> fs, end |-> fe],
         query  |-> [op |-> "get_time_window", start |-> fs, end |-> fe,
                     off |-> ZoneOffset(d)],
         frames |-> TimeWindow(frames, fs, fe, ZoneOffset(d))]

\* The window and the frames of a call, as __main__ holds them.
Windowed(call) ==
    /\ window' = call.window
    /\ query' = call.query
    /\ result' = call.frames

\* The position of the date in test_dates, 0 before the loop begins.
DateIndex ==
    IF date = NoDate THEN 0
    ELSE CHOOSE k \in DOMAIN test_dates : test_dates[k] = date

\* golden hour: one pass of "for d in test_dates"
GoldenHourDate ==
    /\ phase = "built"
    /\ variant = "goldenhour"
    /\ DateIndex < Len(test_dates)
    /\ LET d == test_dates[DateIndex + 1]
       IN  /\ date' = d
           /\ \E sunset \in SunTimes(variant, d, SunsetClocks) :
                /\ sun' = [NoSun EXCEPT !.sunset = sunset]
                /\ IF sunset # NoTime
                   THEN Windowed(WindowCall(variant, d, sunset, NoTime))
                   ELSE UNCHANGED <<window, query, result>>
    /\ UNCHANGED <<variant, start_cutoff, phase, visited, frames, appended, sess>>
    /\ UNCHANGED rewindVars

\* rewind: __main__, for its one test day
RewindTestDay ==
    /\ phase = "built"
    /\ variant = "rewind"
    /\ date = NoDate
    /\ date' = TEST_DAY
    /\ \E sunset \in SunTimes(variant, TEST_DAY, SunsetClocks),
          dusk \in SunTimes(variant, TEST_DAY, DuskClocks) :
         /\ sun' = [NoSun EXCEPT !.sunset = sunset, !.dusk = dusk]
         /\ IF sunset # NoTime /\ dusk # NoTime
            THEN /\ Windowed(WindowCall(variant, TEST_DAY, sunset, dusk))
                 /\ IF result' # <<>>
                    THEN /\ frame_list' = result'
                         /\ full_list' = create_video_with_rewind(result')
                    ELSE UNCHANGED rewindVars
            ELSE UNCHANGED <<window, query, result, rewindVars>>
    /\ UNCHANGED <<variant, start_cutoff, phase, visited, frames, appended, sess>>

NextMain == GoldenHourDate \/ RewindTestDay

SpecMain == InitMain /\ [][NextMain]_vars

(***************************************************************************)
(* Properties of the rewind and of the window.                             *)
(***************************************************************************)
\* ceil(n / d) for d > 0
CeilDiv(n, d) == (n + d - 1) \div d

\* C5: for a forward sequence of N >= 1 frames and M = 45 the rendered
\* list is the forward sequence unchanged, followed by the frames at the
\* forward positions N-1, N-1-step, N-1-2*step, ... while not negative,
\* with step = max(1, N // M): ceil(N / step) rewind frames, and
\* N + ceil(N / step) frames in all.
C5_ForwardThenDecimatedReverse ==
    full_list # <<>> =>
        LET N  == Len(frame_list)
            st == IF N \div 45 >= 1 THEN N \div 45 ELSE 1
            R  == Cardinality({k \in 0..N : N - 1 - k * st >= 0})
        IN  /\ N >= 1
            /\ frame_list = result
            /\ R = CeilDiv(N, st)
            /\ Len(full_list) = N + CeilDiv(N, st)
            /\ \A k \in 1..N : full_list[k] = frame_list[k]
            /\ \A k \in 0..(R - 1) : full_list[N + 1 + k] = frame_list[N - k * st]

\* A rewind of a sequence long enough for the step 2, of odd length: the
\* rewind ends at the second frame and has one frame more than N // 2.
C5_Witness ==
    /\ Len(frame_list) >= 2 * M
    /\ Len(frame_list) < 3 * M
    /\ Len(frame_list) % 2 = 1
    /\ Len(full_list) = Len(frame_list) + (Len(frame_list) + 1) \div 2
    /\ full_list[Len(full_list)] = frame_list[1]
    /\ full_list[Len(frame_list) + 2] = frame_list[Len(frame_list) - 2]

\* m is the earlier of the times raw and cap
EarlierOf(m, raw, cap) ==
    /\ TsLeq(m, cap)
    /\ TsLeq(raw, cap) => m = raw
    /\ TsLess(cap, raw) => m = cap

\* __main__ has a window for the date of the state
WindowOfDate ==
    /\ date # NoDate
    /\ sun.sunset # NoTime
    /\ variant = "rewind" => sun.dusk # NoTime

\* C6: the window handed to get_time_window starts at the earlier of
\* sunset - 150 min and 17:00 of the date, and in the golden-hour script
\* ends at the earlier of sunset + 120 min and 21:00: never later than the
\* cap, and at the raw bound when that is earlier than the cap.
C6_WindowCapped ==
    WindowOfDate =>
        /\ query.op = "get_time_window"
        /\ query.start = window.start /\ query.end = window.end
        /\ EarlierOf(window.start, AddMinutes(sun.sunset, 0 - 150),
                     Secs(OnDate(variant, date, 17, 0, 0)))
        /\ variant = "goldenhour" =>
               EarlierOf(window.end, AddMinutes(sun.sunset, 120),
                         Secs(OnDate(variant, date, 21, 0, 0)))

\* A golden-hour date whose start is before 17:00 and left as it is,
\* and whose end is capped at 21:00.
C6_Witness ==
    /\ variant = "goldenhour"
    /\ WindowOfDate
    /\ window.start = AddMinutes(sun.sunset, 0 - 150)
    /\ TsLess(window.start, Secs(OnDate(variant, date, 17, 0, 0)))
    /\ TsLess(window.end, AddMinutes(sun.sunset, 120))
    /\ window.end = Secs(OnDate(variant, date, 21, 0, 0))

(***************************************************************************)
(* get_sun_time.  The floats of the code are fixed-point numbers here:     *)
(* the integer x stands for x / One.  Products and quotients are taken in  *)
(* parts, so that no intermediate value leaves 32 bits, and are cut, not   *)
(* rounded, at the last digit: a time of day is within a hundredth of a    *)
(* minute of the code's.                                                   *)
(***************************************************************************)
One == 1000 * 1000

Abs(x) == IF x < 0 THEN 0 - x ELSE x

\* a * b / One for a, b >= 0
MulParts(ah, al, bh, bl) ==
    ah * bh + (ah * bl + al * bh) \div 1000
            + (((ah * bl + al * bh) % 1000) * 1000 + al * bl) \div One

\* a * b
FMul(a, b) ==
    LET m == MulParts(Abs(a) \div 1000, Abs(a) % 1000,
                      Abs(b) \div 1000, Abs(b) % 1000)
    IN  IF (a < 0) = (b < 0) THEN m ELSE 0 - m

\* r * One / b for 0 <= r < b: six digits, two at a time
DivDigits(r, b) ==
    LET d1 == (r * 100) \div b
        r1 == (r * 100) % b
        d2 == (r1 * 100) \div b
        r2 == (r1 * 100) % b
        d3 == (r2 * 100) \div b
    IN  d1 * 10000 + d2 * 100 + d3

\* a / b, b # 0
FDiv(a, b) ==
    LET q == (Abs(a) \div Abs(b)) * One + DivDigits(Abs(a) % Abs(b), Abs(b))
    IN  IF (a < 0) = (b < 0) THEN q ELSE 0 - q

\* math.pi
PI == 3141593

\* math.radians(x), math.degrees(x)
radians(x) == FMul(x, PI) \div 180
degrees(x) == FDiv(FMul(x, 180 * One), PI)

\* 1 - y2/(n(n+1)) * (1 - y2/((n+2)(n+3)) * ( ... )), up to n = last:
\* the power series of the cosine (n = 1) and of sin(y)/y (n = 2).
RECURSIVE Horner(_, _, _)
Horner(y2, n, last) ==
    IF n > last THEN One
    ELSE One - FMul(y2, Horner(y2, n + 2, last)) \div (n * (n + 1))

SeriesTerms == 13

CosSeries(y) == Horner(FMul(y, y), 1, SeriesTerms)
SinSeries(y) == FMul(y, Horner(FMul(y, y), 2, SeriesTerms))

\* x brought into -pi .. pi
Reduced(x) ==
    LET r == x % (2 * PI)
    IN  IF r > PI THEN r - 2 * PI ELSE r

CosReduced(r) ==
    IF 2 * r > PI THEN 0 - CosSeries(PI - r)
    ELSE IF 2 * r < 0 - PI THEN 0 - CosSeries(r + PI)
    ELSE CosSeries(r)

SinReduced(r) ==
    IF 2 * r > PI THEN SinSeries(PI - r)
    ELSE IF 2 * r < 0 - PI THEN 0 - SinSeries(r + PI)
    ELSE SinSeries(r)

\* math.cos(x), math.sin(x), math.tan(x)
cos(x) == CosReduced(Reduced(x))
sin(x) == SinReduced(Reduced(x))
tan(x) == FDiv(sin(x), cos(x))

\* math.acos(x) for -1 <= x <= 1: the angle of 0 .. pi with that cosine,
\* found by halving the interval (the cosine falls from 1 to -1 on it).
RECURSIVE AcosBetween(_, _, _)
AcosBetween(x, lo, hi) ==
    IF hi - lo <= 1 THEN lo
    ELSE IF cos((lo + hi) \div 2) > x
         THEN AcosBetween(x, (lo + hi) \div 2, hi)
         ELSE AcosBetween(x, lo, (lo + hi) \div 2)

acos(x) == AcosBetween(x, 0, PI)

LATITUDE == 37791668
LONGITUDE == 0 - 122415493

\* get_local_offset(dt) of the overlapping script, dt the midnight of a
\* date: a time is [yday, hour], daylight time runs from dst_start to
\* before dst_end.
MomentLeq(a, b) == a.yday < b.yday \/ (a.yday = b.yday /\ a.hour <= b.hour)

dst_start(year) == IF year = 2025 THEN [yday |-> 68, hour |-> 2]
                   ELSE [yday |-> 67, hour |-> 2]
dst_end(year)   == IF year = 2025 THEN [yday |-> 306, hour |-> 2]
                   ELSE [yday |-> 305, hour |-> 2]

get_local_offset(d) ==
    LET dt == [yday |-> d.yday, hour |-> 0]
    IN  IF d.year \notin {2025, 2026} THEN 0 - 8
        ELSE IF MomentLeq(dst_start(d.year), dt) /\ ~MomentLeq(dst_end(d.year), dt)
        THEN 0 - 7
        ELSE 0 - 8

\* The hours to add to the UTC time: get_local_offset in the overlapping
\* script, "utctime - (8 * 60)" in the timelapse script.
LocalOffset(v, d) == IF v = "overlapping" THEN get_local_offset(d) ELSE 0 - 8

\* gamma = (2 * math.pi / 365.0) * (day_of_year - 1)
gamma(day_of_year) ==
    2 * ((PI * (day_of_year - 1)) \div 365)
      + (2 * ((PI * (day_of_year - 1)) % 365)) \div 365

eqtime(g) ==
    FMul(229180000,
         75 + FMul(1868, cos(g)) - FMul(32077, sin(g))
            - FMul(14615, cos(2 * g)) - FMul(40849, sin(2 * g)))

decl(g) ==
    6918 - FMul(399912, cos(g)) + FMul(70257, sin(g))
         - FMul(6758, cos(2 * g)) + FMul(907, sin(2 * g))
         - FMul(2697, cos(3 * g)) + FMul(1480, sin(3 * g))

zenith == radians(90833000)
rad_lat == radians(LATITUDE)

cos_ha(dc) ==
    FDiv(cos(zenith), FMul(cos(rad_lat), cos(dc))) - FMul(tan(rad_lat), tan(dc))

ha_deg(c) == degrees(acos(c))

solar_noon_utc(eq) == 720 * One - 4 * LONGITUDE - eq

\* (the later of the two taken for the morning)
morning_utc_later(noon, had) == Max(noon - 4 * had, noon + 4 * had)

\* t1, t2 = solar_noon_utc - (4 * ha_deg), solar_noon_utc + (4 * ha_deg)
\* morning_utc, evening_utc = min(t1, t2), max(t1, t2)
morning_utc(noon, had) == Min(noon - 4 * had, noon + 4 * had)
evening_utc(noon, had) == Max(noon - 4 * had, noon + 4 * had)

\* local_time_min = (utctime + (offset * 60)) % 1440, and the time of day
\* datetime(..., int(local_time_min // 60), int(local_time_min % 60))
LocalClock(utctime, offset) ==
    LET local_time_min == (utctime + offset * 60 * One) % (1440 * One)
    IN  Secs((local_time_min \div (60 * One)) * 3600
             + ((local_time_min % (60 * One)) \div One) * 60)

\* The event's time from the cosine of the hour angle and the solar noon.
SunClock(v, d, event, c, noon) ==
    IF c > One \/ c < 0 - One THEN NoTime
    ELSE LocalClock(IF event = "sunrise" THEN morning_utc(noon, ha_deg(c))
                    ELSE evening_utc(noon, ha_deg(c)),
                    LocalOffset(v, d))

\* get_sun_time(date, event): the time of day it returns, NoTime for None.
get_sun_time(v, d, event) ==
    SunClock(v, d, event, cos_ha(decl(gamma(d.yday))),
             solar_noon_utc(eqtime(gamma(d.yday))))

FirstYear == 2024
NumYears == 3

\* date.timetuple().tm_yday runs to 365, to 366 in a leap year.
DaysIn(year) ==
    IF year % 4 = 0 /\ (year % 100 # 0 \/ year % 400 = 0) THEN 366 ELSE 365

SunDates ==
    { [year |-> y, yday |-> n] :
        y \in FirstYear..(FirstYear + NumYears - 1), n \in 1..366 }

InitSun ==
    /\ variant \in {"overlapping", "timelapse"}
    /\ start_cutoff = NoCutoff
    /\ phase = "walking"
    /\ visited = {}
    /\ frames = <<>>
    /\ appended = <<>>
    /\ sess = [d \in Dirs |-> NotVisited]
    /\ QueryIdle /\ RewindIdle
    /\ date \in SunDates
    /\ date.yday <= DaysIn(date.year)
    /\ sun = NoSun
    /\ window = NoWindow

\* for event in ["sunrise", "sunset"]: get_sun_time(date, event)
SunOfDate ==
    /\ sun = NoSun
    /\ sun' = [NoSun EXCEPT !.sunrise = get_sun_time(variant, date, "sunrise"),
                            !.sunset = get_sun_time(variant, date, "sunset")]
    /\ UNCHANGED <<variant, start_cutoff, phase, visited, frames, appended, sess>>
    /\ UNCHANGED <<queryVars, rewindVars, date, window>>

NextSun == SunOfDate

SpecSun == InitSun /\ [][NextSun]_vars

\* C9: on every date for which get_sun_time returns a time for both
\* events, the sunrise it returns is strictly earlier than the sunset, the
\* minutes having been reduced modulo 1440 and cut to whole minutes.
C9_SunriseBeforeSunset ==
    (sun.sunrise # NoTime /\ sun.sunset # NoTime) =>
        TsLess(sun.sunrise, sun.sunset)

\* The summer solstice of 2025 in daylight time: 5:47 and 20:34.
C9_Witness ==
    /\ variant = "overlapping"
    /\ date = [year |-> 2025, yday |-> 172]
    /\ sun.sunrise = Secs(5 * 3600 + 47 * 60)
    /\ sun.sunset = Secs(20 * 3600 + 34 * 60)

(***************************************************************************)
(* Properties of the index after construction and under queries.           *)
(***************************************************************************)
\* The place of a frame in the order of discovery.
Discovered(f) == CHOOSE j \in DOMAIN appended : appended[j] = f

\* C11: frames of one timestamp stand in self.frames in the order in which
\* the walk appended them, not in the order of their paths, in every
\* variant, after construction and after get_range.
C11_TiesInDiscoveryOrder ==
    phase = "built" =>
        \A j, k \in DOMAIN frames :
            (j < k /\ frames[j].ts = frames[k].ts)
                => Discovered(frames[j]) < Discovered(frames[k])

\* C12: once the index is built no call of get_range or get_time_window,
\* whatever its arguments and whatever calls came before it, changes
\* self.frames: the same frames stay in the same positions.
C12_IndexImmutable == [][phase = "built" => frames' = frames]_vars

\* A call has returned part of an index whose frames were not appended in
\* the order of their timestamps, and the index is still the built one.
C12_Witness ==
    /\ phase = "built"
    /\ query # NoQuery
    /\ query.op \in {"get_range", "get_time_window"}
    /\ 0 < Len(result) /\ Len(result) < Len(frames)
    /\ frames # appended
    /\ \E j \in DOMAIN frames : j > 1 /\ frames[j].ts = frames[j - 1].ts

(***************************************************************************)
(* The zone of the location: US Pacific time, daylight time from 02:00 on  *)
(* the second Sunday of March to 02:00 on the first Sunday of November.    *)
(***************************************************************************)
RECURSIVE DaysBeforeYear(_)
DaysBeforeYear(year) ==
    IF year <= 2024 THEN 0 ELSE DaysBeforeYear(year - 1) + DaysIn(year - 1)

\* 0 for Monday to 6 for Sunday; 1 January 2024 was a Monday.
Weekday(d) == (DaysBeforeYear(d.year) + d.yday - 1) % 7

LeapDay(year) == DaysIn(year) - 365

\* The day of the year of the k-th Sunday counted from day `from`.
SundayFrom(year, from, k) ==
    CHOOSE n \in (from + 7 * (k - 1))..(from + 7 * k - 1) :
        Weekday([year |-> year, yday |-> n]) = 6

\* 1 March is day 60 (61 in a leap year), 1 November day 305 (306).
PacificDSTStart(year) == SundayFrom(year, 60 + LeapDay(year), 2)
PacificDSTEnd(year)   == SundayFrom(year, 305 + LeapDay(year), 1)

\* An instant given as minutes (in millionths) after 00:00 UTC of a date,
\* as the day and the minute of the day in UTC.
UTCInstant(d, utctime) ==
    [yday |-> d.yday + utctime \div (1440 * One),
     min  |-> utctime % (1440 * One)]

InstantLeq(a, b) == a.yday < b.yday \/ (a.yday = b.yday /\ a.min <= b.min)

\* Daylight time begins at 02:00 PST = 10:00 UTC and ends at 02:00 PDT =
\* 09:00 UTC.
PacificOffsetAt(d, utctime) ==
    LET at    == UTCInstant(d, utctime)
        begin == [yday |-> PacificDSTStart(d.year), min |-> 600 * One]
        end   == [yday |-> PacificDSTEnd(d.year), min |-> 540 * One]
    IN  IF InstantLeq(begin, at) /\ ~InstantLeq(end, at) THEN 0 - 7 ELSE 0 - 8

\* The UTC instant of the crossing that get_sun_time computes for the event.
CrossingUTC(d, event) ==
    LET noon == solar_noon_utc(eqtime(gamma(d.yday)))
        had  == ha_deg(cos_ha(decl(gamma(d.yday))))
    IN  IF event = "sunrise" THEN morning_utc(noon, had)
        ELSE evening_utc(noon, had)

ShiftedByZone(d, event) ==
    LocalClock(CrossingUTC(d, event), PacificOffsetAt(d, CrossingUTC(d, event)))

\* C13: the time of day get_sun_time returns is the UTC instant of the
\* crossing shifted by the offset in effect at that instant, -7 h in
\* daylight time and -8 h otherwise, on every date of every year, the
\* days of the change included.
C13_OffsetInEffect ==
    (sun.sunrise # NoTime /\ sun.sunset # NoTime) =>
        /\ sun.sunrise = ShiftedByZone(date, "sunrise")
        /\ sun.sunset = ShiftedByZone(date, "sunset")

(***************************************************************************)
(* automate_timelapse.py: one folder of frames at a time, no index.        *)
(* Times are naive datetimes, in seconds from 1 January 00:00 of the       *)
(* folder's year.  The folder is sess[1]; its reads field is the list of   *)
(* the files get_exif_timestamp was run on, in order.                      *)
(***************************************************************************)
MaxFolderFiles == 9000

\* len(all_files) of the folder, the day and time of day its first frame
\* states, and the seconds between two frames as the camera took them.
FolderCounts == {1, 700, 1800, 2000, MaxFolderFiles}
FolderDates == {[year |-> 2025, yday |-> 172], [year |-> 2025, yday |-> 355]}
FolderClocks == {3 * 3600, 17 * 3600, 22 * 3600}
FolderIntervals == {10, 12}

\* datetime(date.year, date.month, date.day, h, m) and datetime.date()
DateTime(d, clock) == Secs((d.yday - 1) * DaySecs + clock.s)
DateOf(year, t) == [year |-> year, yday |-> t.s \div DaySecs + 1]

\* find_frames_for_event(folder, target_time, duration_seconds, fps,
\*                       interval_seconds, center_ratio), t0 being the
\* timestamp read from the folder's first frame.
find_frames_for_event(t0, target_time, duration_seconds, fps, interval_seconds, center_ratio) ==
    LET target_offset_seconds == target_time.s - t0.s
        target_frame  == IntTrunc(target_offset_seconds, interval_seconds) + 1
        num_frames    == duration_seconds * fps
        frames_before == IntTrunc(num_frames * center_ratio.num, center_ratio.den)
        start_frame   == Max(1, target_frame - frames_before)
    IN  [target_frame |-> target_frame, num_frames |-> num_frames,
         start_frame |-> start_frame, end_frame |-> start_frame + num_frames]

\* ratio = 0.45 if event == "sunrise" else 0.5
EventRatio(event) ==
    IF event = "sunrise" THEN [num |-> 45, den |-> 100] ELSE [num |-> 1, den |-> 2]

InitFolder ==
    /\ variant = "timelapse"
    /\ start_cutoff = NoCutoff
    /\ phase = "folder"
    /\ visited = {}
    /\ frames = <<>>
    /\ appended = <<>>
    /\ sess = [d \in Dirs |-> NotVisited]
    /\ QueryIdle /\ RewindIdle /\ SunIdle

\* process_folder up to its loop: the listing, the two reads, the dates.
ProcessFolder ==
    /\ phase = "folder"
    /\ \E n \in FolderCounts, day \in FolderDates, clock \in FolderClocks,
          ivl \in FolderIntervals,
          firstFails \in ReaderFailures \cup {Unread},
          lastFails \in ReaderFailures \cup {Unread} :
         LET t     == (day.yday - 1) * DaySecs + clock
             first == IF firstFails # Unread THEN firstFails ELSE Stamp(t)
             last  == IF n = 1 THEN first
                      ELSE IF lastFails # Unread THEN lastFails
                      ELSE Stamp(t + ivl * (n - 1))
             t_start == get_exif_timestamp(first)
             t_end   == get_exif_timestamp(last)
         IN  /\ (firstFails # Unread => (ivl = 10 /\ clock = 3 * 3600))
             /\ (n = 1 => lastFails = Unread)
             /\ visited' = {1}
             /\ IF t_start.kind = "raise"
                THEN /\ sess' = [sess EXCEPT ![1] =
                                   [n |-> n, thumb |-> FALSE, first |-> first,
                                    last |-> Unread, reads |-> <<1>>]]
                     /\ phase' = "aborted"
                     /\ date' = date
                ELSE /\ sess' = [sess EXCEPT ![1] =
                                   [n |-> n, thumb |-> FALSE, first |-> first,
                                    last |-> last, reads |-> <<1, n>>]]
                     /\ phase' = IF t_end.kind = "raise" THEN "aborted"
                                 ELSE IF t_start.kind = "None" \/ t_end.kind = "None"
                                 THEN "returned"
                                 ELSE "events"
                     /\ date' = IF t_start.kind = "ts" /\ t_end.kind = "ts"
                                THEN DateOf(day.year, t_start.t)
                                ELSE date
    /\ UNCHANGED <<variant, start_cutoff, frames, appended>>
    /\ UNCHANGED <<queryVars, rewindVars, sun, window>>

\* The place of the loops after the event just evaluated.
NextInLoop ==
    IF query = NoQuery THEN [date |-> date, event |-> "sunrise"]
    ELSE IF query.event = "sunrise" THEN [date |-> date, event |-> "sunset"]
    ELSE [date |-> [date EXCEPT !.yday = @ + 1], event |-> "sunrise"]

FolderEnd == DateOf(date.year, Secs(sess[1].last.t))

\* One pass of "for event in [...]" inside "while current_date <= end_dt_date".
FolderEvent ==
    /\ phase = "events"
    /\ NextInLoop.date.yday <= FolderEnd.yday
    /\ \E exists \in BOOLEAN :
         LET at       == NextInLoop
             clock    == get_sun_time(variant, at.date, at.event)
             sun_time == DateTime(at.date, clock)
             t_start  == Secs(sess[1].first.t)
             t_end    == Secs(sess[1].last.t)
             inRange  == /\ clock # NoTime
                         /\ t_start.s - 2 * 3600 <= sun_time.s
                         /\ sun_time.s <= t_end.s + 2 * 3600
             call     == find_frames_for_event(t_start, sun_time, 60, 30, 10,
                                               EventRatio(at.event))
             wanted   == call.start_frame < sess[1].n /\ call.end_frame > 1
         IN  /\ date' = at.date
             /\ sun' = [NoSun EXCEPT ![at.event] = clock]
             /\ (exists => inRange /\ wanted)
             /\ IF inRange
                THEN /\ sess' = [sess EXCEPT ![1].reads = Append(@, 1)]
                     /\ query' = [op |-> "find_frames_for_event",
                                  event |-> at.event, target_time |-> sun_time,
                                  target_frame |-> call.target_frame,
                                  start_frame |-> call.start_frame,
                                  end_frame |-> call.end_frame,
                                  encoded |-> wanted /\ ~exists]
                ELSE /\ sess' = sess
                     /\ query' = [op |-> "skipped", event |-> at.event]
    /\ UNCHANGED <<variant, start_cutoff, phase, visited, frames, appended>>
    /\ UNCHANGED <<result, rewindVars, window>>

\* The while loop ends and process_folder returns.
FolderDone ==
    /\ phase = "events"
    /\ NextInLoop.date.yday > FolderEnd.yday
    /\ phase' = "returned"
    /\ UNCHANGED <<variant, start_cutoff, visited, frames, appended, sess>>
    /\ UNCHANGED <<queryVars, rewindVars, sunVars>>

NextFolder == ProcessFolder \/ FolderEvent \/ FolderDone

SpecFolder == InitFolder /\ [][NextFolder]_vars

\* C14: in a run, the metadata reader is invoked at most twice for a
\* session, on its first and on its last frame, however many dates and
\* events are evaluated against the session.
C14_TwoReadsPerSession ==
    \A d \in Dirs :
        /\ Len(sess[d].reads) <= 2
        /\ \A j \in DOMAIN sess[d].reads : sess[d].reads[j] \in {1, sess[d].n}

\* C15: a frame range handed to the encoder by process_folder starts at
\* frame 1 or later and, in a folder of at least duration*fps frames, ends
\* at the folder's last frame or before it.
C15_RangeInsideFolder ==
    (phase = "events" /\ query # NoQuery /\ query.op = "find_frames_for_event"
       /\ query.encoded) =>
        /\ 1 <= query.start_frame
        /\ (sess[1].n >= 60 * 30 => query.end_frame <= sess[1].n)

====
